---------------------------- MODULE Spec2Model ----------------------------
(***************************************************************************)
(* A model of skyfield/starlib.py: the Star class, its constructor, the    *)
(* catalog-to-vector conversion _compute_vectors and the light-time        *)
(* corrected projection observe_from.                                      *)
(*                                                                         *)
(* Numbers.  The program computes in IEEE binary64.  The model computes in *)
(* a decimal floating point of the same shape, scaled down so that TLC's   *)
(* 32-bit integers can hold it: a value is a pair <<m, e>> standing for    *)
(* m * 10^e with a four digit significand (1000 <= |m| <= 9999, or m = 0), *)
(* an exponent in -ExpMax .. ExpMax, rounding to nearest (ties to even),   *)
(* overflow to an infinity and underflow to zero.  As in binary64 the      *)
(* exponent above the largest one is reserved: <<1, ExpMax+1>> and         *)
(* <<-1, ExpMax+1>> are the infinities and <<0, ExpMax+1>> is NaN.  Signed *)
(* zeros and subnormals are not modelled.                                  *)
(***************************************************************************)
EXTENDS Integers, Sequences, FiniteSets, TLC

\* Largest exponent of a finite value (binary64: about 308).
ExpMax == 30

----------------------------------------------------------------------------
(* Integer helpers *)

Abs(n) == IF n < 0 THEN -n ELSE n

Sgn(n) == IF n < 0 THEN -1 ELSE IF n > 0 THEN 1 ELSE 0

Pow10(k) ==
    CASE k = 0 -> 1
      [] k = 1 -> 10
      [] k = 2 -> 100
      [] k = 3 -> 1000
      [] k = 4 -> 10000
      [] k = 5 -> 100000
      [] k = 6 -> 1000000
      [] k = 7 -> 10000000
      [] k = 8 -> 100000000
      [] k = 9 -> 1000000000

\* Number of decimal digits of a natural number below 2^31.
NDigits(n) ==
    IF n < 10 THEN 1
    ELSE IF n < 100 THEN 2
    ELSE IF n < 1000 THEN 3
    ELSE IF n < 10000 THEN 4
    ELSE IF n < 100000 THEN 5
    ELSE IF n < 1000000 THEN 6
    ELSE IF n < 10000000 THEN 7
    ELSE IF n < 100000000 THEN 8
    ELSE IF n < 1000000000 THEN 9
    ELSE 10

RECURSIVE Bisect(_, _, _)
\* The integer r with lo <= r < hi and r*r <= n < (r+1)*(r+1).
Bisect(n, lo, hi) ==
    IF hi - lo <= 1 THEN lo
    ELSE LET mid == (lo + hi) \div 2
         IN  IF mid * mid <= n THEN Bisect(n, mid, hi) ELSE Bisect(n, lo, mid)

\* Square root of n < 10^9, rounded to the nearest integer.
ISqrt(n) ==
    LET r == Bisect(n, 0, 31623)
    IN  IF n > r * r + r THEN r + 1 ELSE r

----------------------------------------------------------------------------
(* The floating-point format *)

NaN == <<0, ExpMax + 1>>

Inf(s) == <<s, ExpMax + 1>>

Zero == <<0, 0>>

IsNaN(a) == a[2] = ExpMax + 1 /\ a[1] = 0

IsInf(a) == a[2] = ExpMax + 1 /\ a[1] # 0

IsFinite(a) == a[2] <= ExpMax

\* A normalised significand q (1000..9999) with sign s and exponent e.
Pack(s, q, e) ==
    IF e > ExpMax THEN Inf(s)
    ELSE IF e < -ExpMax THEN Zero
    ELSE <<s * q, e>>

\* The value nearest to m * 10^e, for any integer m below 2^31 in size.
Norm(m, e) ==
    LET a == Abs(m)
        s == Sgn(m)
        d == NDigits(a)
    IN  IF m = 0 THEN Zero
        ELSE IF d <= 4 THEN Pack(s, a * Pow10(4 - d), e - (4 - d))
        ELSE LET k  == d - 4
                 p  == Pow10(k)
                 q  == a \div p
                 r  == a % p
                 up == (r - (p - r) > 0) \/ (r = p - r /\ q % 2 = 1)
                 q1 == IF up THEN q + 1 ELSE q
             IN  IF q1 = 10000 THEN Pack(s, 1000, e + k + 1)
                 ELSE Pack(s, q1, e + k)

\* A literal of the source: D(36525, -2) is 365.25.
D(m, e) == Norm(m, e)

fneg(a) == <<-a[1], a[2]>>

fabs(a) == <<Abs(a[1]), a[2]>>

\* -1, 0, 1 as a is below, equal to, above b; neither is NaN.
fcmp(a, b) ==
    LET sa == Sgn(a[1])
        sb == Sgn(b[1])
    IN  IF sa # sb THEN Sgn(sa - sb)
        ELSE IF sa = 0 THEN 0
        ELSE IF a[2] # b[2] THEN sa * Sgn(a[2] - b[2])
        ELSE Sgn(a[1] - b[1])

\* Comparisons with a NaN are false.
fle(a, b) == ~IsNaN(a) /\ ~IsNaN(b) /\ fcmp(a, b) <= 0

flt(a, b) == ~IsNaN(a) /\ ~IsNaN(b) /\ fcmp(a, b) < 0

fmul(a, b) ==
    IF IsNaN(a) \/ IsNaN(b) THEN NaN
    ELSE IF IsInf(a) \/ IsInf(b)
         THEN IF a[1] = 0 \/ b[1] = 0 THEN NaN
              ELSE Inf(Sgn(a[1]) * Sgn(b[1]))
    ELSE Norm(a[1] * b[1], a[2] + b[2])

fadd(a, b) ==
    IF IsNaN(a) \/ IsNaN(b) THEN NaN
    ELSE IF IsInf(a) THEN (IF IsInf(b) /\ b[1] # a[1] THEN NaN ELSE a)
    ELSE IF IsInf(b) THEN b
    ELSE IF a[1] = 0 THEN b
    ELSE IF b[1] = 0 THEN a
    ELSE LET hi == IF a[2] >= b[2] THEN a ELSE b
             lo == IF a[2] >= b[2] THEN b ELSE a
             d  == hi[2] - lo[2]
         IN  IF d > 5 THEN hi
             ELSE Norm(hi[1] * Pow10(d) + lo[1], lo[2])

fsub(a, b) == fadd(a, fneg(b))

\* IEEE division (numpy's): a division by zero gives an infinity or NaN.
fdiv(a, b) ==
    IF IsNaN(a) \/ IsNaN(b) THEN NaN
    ELSE IF IsInf(a)
         THEN IF IsInf(b) THEN NaN
              ELSE Inf(a[1] * (IF b[1] < 0 THEN -1 ELSE 1))
    ELSE IF IsInf(b) THEN Zero
    ELSE IF b[1] = 0
         THEN IF a[1] = 0 THEN NaN ELSE Inf(Sgn(a[1]))
    ELSE Norm(Sgn(a[1]) * Sgn(b[1]) * ((Abs(a[1]) * 100000) \div Abs(b[1])),
              a[2] - b[2] - 5)

fsqrt(a) ==
    IF IsNaN(a) \/ a[1] < 0 THEN NaN
    ELSE IF IsInf(a) \/ a[1] = 0 THEN a
    ELSE IF a[2] % 2 = 0
         THEN Norm(ISqrt(a[1] * 10000), (a[2] - 4) \div 2)
         ELSE Norm(ISqrt(a[1] * 100000), (a[2] - 5) \div 2)

\* The integer nearest to a finite a, |a| < 10^9.
RoundToInt(a) ==
    IF a[2] >= 0 THEN a[1] * Pow10(a[2])
    ELSE IF a[2] < -5 THEN 0
    ELSE LET p == Pow10(-a[2])
             q == Abs(a[1]) \div p
             r == Abs(a[1]) % p
         IN  Sgn(a[1]) * (IF 2 * r >= p THEN q + 1 ELSE q)

HALF_PI == D(157079633, -8)

\* sin and cos on the reduced range |r| <= pi/4, by their Taylor series
\* (to the seventh and sixth power, in Horner form).
SinHorner(r, r2) ==
    fmul(r, fsub(D(1, 0), fmul(fdiv(r2, D(6, 0)),
                 fsub(D(1, 0), fmul(fdiv(r2, D(20, 0)),
                      fsub(D(1, 0), fdiv(r2, D(42, 0))))))))

SinSeries(r) == SinHorner(r, fmul(r, r))

CosHorner(r2) ==
    fsub(D(1, 0), fmul(fdiv(r2, D(2, 0)),
         fsub(D(1, 0), fmul(fdiv(r2, D(12, 0)),
              fsub(D(1, 0), fdiv(r2, D(30, 0)))))))

CosSeries(r) == CosHorner(fmul(r, r))

\* x = n * pi/2 + r with |r| <= pi/4 (arguments |x| < 10^4).
Quadrant(x) == RoundToInt(fdiv(x, HALF_PI))

Reduced(x, n) == fsub(x, fmul(D(n, 0), HALF_PI))

SinReduced(q, r) ==
    CASE q = 0 -> SinSeries(r)
      [] q = 1 -> CosSeries(r)
      [] q = 2 -> fneg(SinSeries(r))
      [] q = 3 -> fneg(CosSeries(r))

SinQuadrant(x, n) == SinReduced(n % 4, Reduced(x, n))

\* numpy.sin and numpy.cos: NaN (and a warning) for a non-finite argument.
sin(x) == IF ~IsFinite(x) THEN NaN ELSE SinQuadrant(x, Quadrant(x))

cos(x) == IF ~IsFinite(x) THEN NaN ELSE SinQuadrant(x, Quadrant(x) + 1)

----------------------------------------------------------------------------
(* Module constants of starlib.py and the imported epoch *)

AU_KM == D(149597871, 0)

ASEC2RAD == D(484813681, -14)

DEG2RAD == D(174532925, -10)

C == D(299792458, 0)

C_AUDAY == D(173144633, -6)

\* from .timescales import T0 (J2000.0 as a Julian date)
T0 == D(2451545, 0)

----------------------------------------------------------------------------
(* Star._compute_vectors *)

\* A Python float division raises ZeroDivisionError on a zero divisor.
ZeroDivisionError(b) == IsFinite(b) /\ b[1] = 0

\* A variant that replaces negative parallaxes only.
EffectiveParallaxStrict(parallax) ==
    IF flt(parallax, Zero) THEN D(1, -6) ELSE parallax

\* "Use 1 gigaparsec for stars whose parallax is zero."
EffectiveParallax(parallax) ==
    IF fle(parallax, Zero) THEN D(1, -6) ELSE parallax

Dist(parallax) ==
    fdiv(D(1, 0), sin(fmul(fmul(parallax, D(1, -3)), ASEC2RAD)))

\* The denominator of the Doppler factor k.
DopplerDenominator(radial_velocity) ==
    fsub(D(1, 0), fmul(fdiv(radial_velocity, C), D(1000, 0)))

ProperMotion(pm, parallax, k) ==
    fmul(fdiv(pm, fmul(parallax, D(36525, -2))), k)

\* A variant that takes the speed, not the signed velocity.
RvlOfSpeed(radial_velocity, k) ==
    fmul(fdiv(fmul(fabs(radial_velocity), D(86400, 0)), AU_KM), k)

Rvl(radial_velocity, k) ==
    fmul(fdiv(fmul(radial_velocity, D(86400, 0)), AU_KM), k)

\* lines 62-66
Position(dist, cra, sra, cdc, sdc) ==
    << fmul(fmul(dist, cdc), cra),
       fmul(fmul(dist, cdc), sra),
       fmul(dist, sdc) >>

\* lines 82-86
Velocity(pmr, pmd, rvl, cra, sra, cdc, sdc) ==
    << fadd(fsub(fmul(fneg(pmr), sra), fmul(fmul(pmd, sdc), cra)),
            fmul(fmul(rvl, cdc), cra)),
       fadd(fsub(fmul(pmr, cra), fmul(fmul(pmd, sdc), sra)),
            fmul(fmul(rvl, cdc), sra)),
       fadd(fmul(pmd, cdc), fmul(rvl, sdc)) >>

\* The method's outcome: whether it raised, the arrays it stored and its
\* local variables.
Outcome(raised, position, velocity, parallax, dist, k, pmr, pmd, rvl) ==
    [raised |-> raised, position |-> position, velocity |-> velocity,
     parallax |-> parallax, dist |-> dist, k |-> k,
     pmr |-> pmr, pmd |-> pmd, rvl |-> rvl]

\* lines 76-86, with k computed
Lines76_86(self, parallax, dist, position, cra, sra, cdc, sdc, k, pmr, pmd, rvl) ==
    Outcome(FALSE, position, Velocity(pmr, pmd, rvl, cra, sra, cdc, sdc),
            parallax, dist, k, pmr, pmd, rvl)

\* lines 71-78: the three divisions are Python float divisions
Lines71_78(self, parallax, dist, position, cra, sra, cdc, sdc, den, k) ==
    IF ZeroDivisionError(den) \/ ZeroDivisionError(fmul(parallax, D(36525, -2)))
    THEN Outcome(TRUE, position, <<>>, parallax, dist, NaN, NaN, NaN, NaN)
    ELSE Lines76_86(self, parallax, dist, position, cra, sra, cdc, sdc, k,
                    ProperMotion(self.pm_ra, parallax, k),
                    ProperMotion(self.pm_dec, parallax, k),
                    Rvl(self.radial_velocity, k))

\* lines 62-71
Lines62_71(self, parallax, dist, cra, sra, cdc, sdc, den) ==
    Lines71_78(self, parallax, dist, Position(dist, cra, sra, cdc, sdc),
               cra, sra, cdc, sdc, den, fdiv(D(1, 0), den))

\* lines 57-60
Lines57_60(self, parallax, dist, r, d) ==
    Lines62_71(self, parallax, dist, cos(r), sin(r), cos(d), sin(d),
               DopplerDenominator(self.radial_velocity))

\* lines 54-56
Lines54_56(self, parallax) ==
    Lines57_60(self, parallax, Dist(parallax),
               fmul(fmul(self.ra, D(15, 0)), DEG2RAD),
               fmul(self.dec, DEG2RAD))

\* self holds the six scalars (lines 47-49, then the rest of the method).
_compute_vectors(self) == Lines54_56(self, EffectiveParallax(self.parallax))

----------------------------------------------------------------------------
(* The object graph.  Arrays (numpy.ndarray) and the observers' time       *)
(* objects live on a heap and are named by references, so that two names   *)
(* for one array can be told from two equal arrays.                        *)

\* The Python value None.
None == <<"None", 0, "">>

StarRef(field) == <<"star", 0, field>>

ObsRef(k, field) == <<"obs", k, field>>

\* An object allocated by the n-th call of observe_from.
CallRef(n, field) == <<"call", n, field>>

\* The names of the six public scalar attributes.
Scalars == {"ra", "dec", "pm_ra", "pm_dec", "parallax", "radial_velocity"}

\* Bounds of the model.
MaxCalls == 2
MaxWrites == 1
MaxMutations == 1
NThreads == 2

Threads == 1..NThreads

\* The observers handed to observe_from (external objects exposing position,
\* velocity and jd.tdb).  Observer 1 is at rest at the origin at the epoch T0.
Observers == {1, 2}

ObserverPosition(k) ==
    IF k = 1 THEN <<Zero, Zero, Zero>> ELSE <<D(1, 0), D(-5, -1), Zero>>

ObserverVelocity(k) ==
    IF k = 1 THEN <<Zero, Zero, Zero>> ELSE <<Zero, D(172, -4), D(1, -3)>>

ObserverTdb(k) == IF k = 1 THEN T0 ELSE D(2455197, 0)

Observer(k) ==
    [position |-> ObsRef(k, "position"), velocity |-> ObsRef(k, "velocity"),
     jd |-> ObsRef(k, "jd")]

ObserverHeap ==
    [r \in UNION {{ObsRef(k, "position"), ObsRef(k, "velocity"), ObsRef(k, "jd")} :
                    k \in Observers} |->
        IF r[3] = "position" THEN ObserverPosition(r[2])
        ELSE IF r[3] = "velocity" THEN ObserverVelocity(r[2])
        ELSE <<ObserverTdb(r[2])>>]

\* What light_time_difference (an external function, days) may return.
DtSet == {Zero, D(5, -3)}

\* Values a caller assigns to a public attribute after construction.
AttrValues == {D(12, 0)}

Args(ra, dec, pm_ra, pm_dec, parallax, radial_velocity) ==
    [ra |-> ra, dec |-> dec, pm_ra |-> pm_ra, pm_dec |-> pm_dec,
     parallax |-> parallax, radial_velocity |-> radial_velocity]

\* Constructor arguments of the stars whose life is followed.
StarArgs ==
    { Args(Zero, Zero, Zero, Zero, Zero, Zero),
      Args(D(6, 0), D(45, 0), D(1000, 0), D(-500, 0), D(1000, 0), D(20, 0)),
      Args(Zero, Zero, D(5, 5), Zero, D(1000, 0), D(-20, 0)),
      Args(Zero, Zero, Inf(1), Zero, Zero, Zero) }

\* Constructor arguments for the claims about construction alone.
BuildArgs ==
    { Args(ra, dec, pm_ra, Zero, parallax, rv) :
        ra \in {Zero, D(6, 0)}, dec \in {Zero, D(45, 0)},
        pm_ra \in {Zero, D(1000, 0), Inf(1)},
        parallax \in {D(-5, 0), Zero, D(1, -6), D(1000, 0)},
        rv \in {Zero, D(20, 0), D(-20, 0), D(2998, 2), D(-2998, 2),
                D(4, 5), D(-4, 5)} }

VARIABLES
    star,      \* the Star object: its status and attributes
    ctor,      \* the arguments its constructor was called with
    frame,     \* the local variables _compute_vectors ended with
    heap,      \* reference -> array contents
    call,      \* per thread: the activation of observe_from, if any
    results,   \* call number -> the GCRS object the call returned
    log,       \* call number -> what the call has done so far
    ncalls,    \* calls of observe_from started
    nwrites,   \* attribute assignments made by callers
    mutated    \* arrays of returned results that callers wrote into

vars == <<star, ctor, frame, heap, call, results, log, ncalls, nwrites, mutated>>

----------------------------------------------------------------------------
(* Array arithmetic (numpy broadcasting over the three components) *)

vadd(u, v) == [i \in DOMAIN u |-> fadd(u[i], v[i])]

vsub(u, v) == [i \in DOMAIN u |-> fsub(u[i], v[i])]

vscale(u, x) == [i \in DOMAIN u |-> fmul(u[i], x)]

\* heap with the array at reference r set to v.
Store(h, r, v) == [x \in DOMAIN h \cup {r} |-> IF x = r THEN v ELSE h[x]]

\* Variants in which an operator works in place (as "a += b" would).
ResultArrayInPlace(fresh, left) == left

ResultArrayInPlacePosition(fresh, left) ==
    IF left[3] = "_position" THEN left ELSE fresh

ResultArrayInPlaceVelocity(fresh, left) ==
    IF left[3] = "_velocity" THEN left ELSE fresh

\* A numpy binary operator allocates the array it returns: the result is a
\* new object, never its left operand.
ResultArray(fresh, left) == fresh

----------------------------------------------------------------------------
(* Star.__init__ *)

NewStar ==
    [status |-> "new", ra |-> NaN, dec |-> NaN, pm_ra |-> NaN, pm_dec |-> NaN,
     parallax |-> NaN, radial_velocity |-> NaN,
     _position |-> None, _velocity |-> None]

IdleFrame ==
    [pc |-> "idle", n |-> 0, observer |-> 0, position |-> None,
     velocity |-> None, jd |-> None, dt |-> Zero, vector |-> None,
     distance |-> None, lighttime |-> None]

\* The star after Star(a.ra, ..., a.radial_velocity): the six attributes are
\* assigned, then _compute_vectors stores the two arrays or raises.
Constructed(a, out) ==
    [status |-> IF out.raised THEN "raised" ELSE "built",
     ra |-> a.ra, dec |-> a.dec, pm_ra |-> a.pm_ra, pm_dec |-> a.pm_dec,
     parallax |-> a.parallax, radial_velocity |-> a.radial_velocity,
     _position |-> StarRef("_position"),
     _velocity |-> IF out.raised THEN None ELSE StarRef("_velocity")]

ConstructedHeap(out) ==
    IF out.raised
    THEN Store(ObserverHeap, StarRef("_position"), out.position)
    ELSE Store(Store(ObserverHeap, StarRef("_position"), out.position),
               StarRef("_velocity"), out.velocity)

Star_init ==
    /\ star.status = "new"
    /\ frame' = _compute_vectors(ctor)
    /\ star' = Constructed(ctor, frame')
    /\ heap' = ConstructedHeap(frame')
    /\ UNCHANGED <<ctor, call, results, log, ncalls, nwrites, mutated>>

----------------------------------------------------------------------------
(* Star.observe_from, one action per line *)

\* A variant that iterates the light-time correction.
AfterIterating(pc) ==
    CASE pc = "l28" -> "l29"
      [] pc = "l29" -> "l30"
      [] pc = "l30" -> "l31"
      [] pc = "l31" -> "l32"
      [] pc = "l32" -> "l33"
      [] pc = "l33" -> "l34"
      [] pc = "l34" -> "l30"
      [] pc = "l36" -> "idle"

\* The straight-line body: the line executed after each line.
After(pc) ==
    CASE pc = "l28" -> "l29"
      [] pc = "l29" -> "l30"
      [] pc = "l30" -> "l31"
      [] pc = "l31" -> "l32"
      [] pc = "l32" -> "l33"
      [] pc = "l33" -> "l34"
      [] pc = "l34" -> "l36"
      [] pc = "l36" -> "idle"

\* Variants of line 31: the epoch T0 left out; dt left out.
ExtrapolateWithoutT0(position, velocity, tdb, dt) ==
    vadd(position, vscale(velocity, fsub(tdb, dt)))

ExtrapolateWithoutDt(position, velocity, tdb, dt) ==
    vadd(position, vscale(velocity, fsub(T0, tdb)))

\* line 31: position + velocity * (T0 - jd.tdb - dt)
Extrapolate(position, velocity, tdb, dt) ==
    vadd(position, vscale(velocity, fsub(fsub(T0, tdb), dt)))

\* line 33: sqrt((vector * vector).sum(axis=0))
Length(vector) ==
    <<fsqrt(fadd(fadd(fmul(vector[1], vector[1]), fmul(vector[2], vector[2])),
                 fmul(vector[3], vector[3])))>>

\* line 34: distance / C_AUDAY
LightTime(distance) == <<fdiv(distance[1], C_AUDAY)>>

Did(n, what) == [log EXCEPT ![n].steps = Append(@, what)]

\* The call observe_from(observer k) on thread t, and line 28.
Line28(t, k) ==
    /\ star.status = "built"
    /\ call[t].pc = "idle"
    /\ ncalls < MaxCalls
    /\ ncalls' = ncalls + 1
    /\ call' = [call EXCEPT ![t] =
                  [IdleFrame EXCEPT !.pc = After("l28"), !.n = ncalls + 1,
                                    !.observer = k,
                                    !.position = star._position,
                                    !.velocity = star._velocity]]
    /\ log' = log @@ ((ncalls + 1) :> [observer |-> k, steps |-> <<"l28">>, ltd |-> <<>>])
    /\ UNCHANGED <<star, ctor, frame, heap, results, nwrites, mutated>>

Line29(t) ==
    /\ call[t].pc = "l29"
    /\ call' = [call EXCEPT ![t].pc = After("l29"),
                            ![t].jd = Observer(call[t].observer).jd]
    /\ log' = Did(call[t].n, "l29")
    /\ UNCHANGED <<star, ctor, frame, heap, results, ncalls, nwrites, mutated>>

\* dt = light_time_difference(position, observer.position): the external
\* function returns some number of days.
Line30(t) ==
    /\ call[t].pc = "l30"
    /\ \E dt \in DtSet :
         /\ call' = [call EXCEPT ![t].pc = After("l30"), ![t].dt = dt]
         /\ log' = [log EXCEPT
                      ![call[t].n].steps = Append(@, "l30"),
                      ![call[t].n].ltd = Append(@,
                          [position |-> call[t].position,
                           observer_position |-> Observer(call[t].observer).position,
                           returned |-> dt])]
    /\ UNCHANGED <<star, ctor, frame, heap, results, ncalls, nwrites, mutated>>

Line31(t) ==
    /\ call[t].pc = "l31"
    /\ LET f == call[t]
           r == ResultArray(CallRef(f.n, "position"), f.position)
       IN  /\ heap' = Store(heap, r, Extrapolate(heap[f.position], heap[f.velocity],
                                                 heap[f.jd][1], f.dt))
           /\ call' = [call EXCEPT ![t].pc = After("l31"), ![t].position = r]
    /\ log' = Did(call[t].n, "l31")
    /\ UNCHANGED <<star, ctor, frame, results, ncalls, nwrites, mutated>>

Line32(t) ==
    /\ call[t].pc = "l32"
    /\ LET f == call[t]
           r == ResultArray(CallRef(f.n, "vector"), f.position)
       IN  /\ heap' = Store(heap, r, vsub(heap[f.position],
                                          heap[Observer(f.observer).position]))
           /\ call' = [call EXCEPT ![t].pc = After("l32"), ![t].vector = r]
    /\ log' = Did(call[t].n, "l32")
    /\ UNCHANGED <<star, ctor, frame, results, ncalls, nwrites, mutated>>

Line33(t) ==
    /\ call[t].pc = "l33"
    /\ LET f == call[t]
           r == CallRef(f.n, "distance")
       IN  /\ heap' = Store(heap, r, Length(heap[f.vector]))
           /\ call' = [call EXCEPT ![t].pc = After("l33"), ![t].distance = r]
    /\ log' = Did(call[t].n, "l33")
    /\ UNCHANGED <<star, ctor, frame, results, ncalls, nwrites, mutated>>

Line34(t) ==
    /\ call[t].pc = "l34"
    /\ LET f == call[t]
           r == ResultArray(CallRef(f.n, "lighttime"), f.distance)
       IN  /\ heap' = Store(heap, r, LightTime(heap[f.distance]))
           /\ call' = [call EXCEPT ![t].pc = After("l34"), ![t].lighttime = r]
    /\ log' = Did(call[t].n, "l34")
    /\ UNCHANGED <<star, ctor, frame, results, ncalls, nwrites, mutated>>

\* lines 36-40: build g, annotate it and return it.  The result g is kept
\* as what this method gives it: the three arguments of GCRS(...) and the
\* three attributes set on it.
Line36(t) ==
    /\ call[t].pc = "l36"
    /\ LET f == call[t]
           r == ResultArray(CallRef(f.n, "velocity"), f.velocity)
       IN  /\ heap' = Store(heap, r, vsub(heap[f.velocity],
                                          heap[Observer(f.observer).velocity]))
           /\ results' = results @@
                (f.n :> [position |-> f.vector, velocity |-> r, jd |-> f.jd,
                         observer |-> f.observer, distance |-> f.distance,
                         lighttime |-> f.lighttime])
           /\ call' = [call EXCEPT ![t] = [IdleFrame EXCEPT !.pc = After("l36")]]
    /\ log' = Did(call[t].n, "l36")
    /\ UNCHANGED <<star, ctor, frame, ncalls, nwrites, mutated>>

observe_from(t) ==
    \/ \E k \in Observers : Line28(t, k)
    \/ Line29(t)
    \/ Line30(t)
    \/ Line31(t)
    \/ Line32(t)
    \/ Line33(t)
    \/ Line34(t)
    \/ Line36(t)

----------------------------------------------------------------------------
(* What callers may do with the objects they hold *)

\* star.<name> = v: the six scalars are plain public attributes.
SetAttr(name, v) ==
    /\ star.status = "built"
    /\ nwrites < MaxWrites
    /\ star[name] # v
    /\ star' = [star EXCEPT ![name] = v]
    /\ nwrites' = nwrites + 1
    /\ UNCHANGED <<ctor, frame, heap, call, results, log, ncalls, mutated>>

\* The arrays a caller reaches through a returned result.
ResultArrays(g) == {g.position, g.velocity, g.distance, g.lighttime}

\* g.<field>[...] = 0.0 on a returned result: an in-place write.
MutateResult(n, r) ==
    /\ n \in DOMAIN results
    /\ r \in ResultArrays(results[n])
    /\ Cardinality(mutated) < MaxMutations
    /\ r \notin mutated
    /\ heap' = [heap EXCEPT ![r] = [i \in DOMAIN heap[r] |-> Zero]]
    /\ mutated' = mutated \cup {r}
    /\ UNCHANGED <<star, ctor, frame, call, results, log, ncalls, nwrites>>

----------------------------------------------------------------------------
(* Specifications *)

Idle ==
    /\ call = [t \in Threads |-> IdleFrame]
    /\ results = <<>>
    /\ log = <<>>
    /\ ncalls = 0
    /\ nwrites = 0
    /\ mutated = {}

\* Construction: the arguments are chosen, the constructor has yet to run.
InitBuild ==
    /\ ctor \in BuildArgs
    /\ star = NewStar
    /\ frame = [raised |-> FALSE]
    /\ heap = ObserverHeap
    /\ Idle

NextBuild == Star_init

SpecBuild == InitBuild /\ [][NextBuild]_vars

\* The life of a star: the state after a construction that returned.
Init ==
    /\ ctor \in StarArgs
    /\ frame = _compute_vectors(ctor)
    /\ ~frame.raised
    /\ star = Constructed(ctor, frame)
    /\ heap = ConstructedHeap(frame)
    /\ Idle

\* One caller: calls of observe_from one after the other, with assignments
\* to the star's public attributes in between.
Next ==
    \/ observe_from(1)
    \/ \E name \in Scalars, v \in AttrValues : SetAttr(name, v)

Spec == Init /\ [][Next]_vars

\* One caller that also writes into the results it was handed.
NextMutate ==
    \/ observe_from(1)
    \/ \E n \in 1..MaxCalls, r \in DOMAIN heap : MutateResult(n, r)

SpecMutate == Init /\ [][NextMutate]_vars

\* Several threads inside observe_from on the same star, no lock.
NextThreads == \E t \in Threads : observe_from(t)

SpecThreads == Init /\ [][NextThreads]_vars

----------------------------------------------------------------------------
(* Properties *)

Built == star.status = "built"

CurrentScalars ==
    Args(star.ra, star.dec, star.pm_ra, star.pm_dec, star.parallax,
         star.radial_velocity)

CachedPosition == heap[StarRef("_position")]

CachedVelocity == heap[StarRef("_velocity")]

StarRefs == {StarRef("_position"), StarRef("_velocity")}

ObserverRefs == DOMAIN ObserverHeap

AllFinite(v) == \A i \in DOMAIN v : IsFinite(v[i])

Returned == DOMAIN results

\* The dt that light_time_difference returned to call n.
DtOf(n) == log[n].ltd[1].returned

\* The contents of the four arrays of the result of call n.
Values(n) ==
    [vector |-> heap[results[n].position], velocity |-> heap[results[n].velocity],
     distance |-> heap[results[n].distance],
     lighttime |-> heap[results[n].lighttime]]

\* What observe_from(observer k) computes, running alone, from the given
\* star vectors when light_time_difference returns dt.
ObserveAlone(position, velocity, k, dt) ==
    LET vector == vsub(Extrapolate(position, velocity, ObserverTdb(k), dt),
                       ObserverPosition(k))
    IN  [vector |-> vector, velocity |-> vsub(velocity, ObserverVelocity(k)),
         distance |-> Length(vector), lighttime |-> LightTime(Length(vector))]

\* _compute_vectors on each of StarArgs, and observe_from running alone on
\* each of the stars so built (tabulated: these do not depend on the state).
Catalog == [a \in StarArgs |-> _compute_vectors(a)]

Alone ==
    [a \in StarArgs, k \in Observers, dt \in DtSet |->
        ObserveAlone(Catalog[a].position, Catalog[a].velocity, k, dt)]

Norm3(v) ==
    fsqrt(fadd(fadd(fmul(v[1], v[1]), fmul(v[2], v[2])), fmul(v[3], v[3])))

(* C1, as amended.  Once the star is constructed its cached position and   *)
(* velocity are the same two arrays for ever, holding what                 *)
(* _compute_vectors yields for the six scalars the constructor was given:  *)
(* after any number of observe_from calls and any assignments to the       *)
(* public scalars.  They agree with the current scalars as long as no      *)
(* scalar has been assigned.                                               *)
C1_CacheFixedAtConstruction ==
    Built =>
        /\ star._position = StarRef("_position")
        /\ star._velocity = StarRef("_velocity")
        /\ CachedPosition = Catalog[ctor].position
        /\ CachedVelocity = Catalog[ctor].velocity
        /\ nwrites = 0 => CurrentScalars = ctor

\* C1 as stated: in every reachable state the cache equals what
\* _compute_vectors yields for the star's current six scalars.
C1_CacheTracksCurrentScalars ==
    Built =>
        /\ CachedPosition = _compute_vectors(CurrentScalars).position
        /\ CachedVelocity = _compute_vectors(CurrentScalars).velocity

\* A scalar was assigned after construction and a call has returned since.
C1_Witness ==
    /\ Built
    /\ nwrites > 0
    /\ CurrentScalars # ctor
    /\ Returned # {}

(* C2.  A parallax <= 0 gives the position and velocity (or the failure)   *)
(* of the same arguments with parallax 1e-6; a parallax > 0 is itself the  *)
(* one used in dist = 1/sin(p * 1e-3 * ASEC2RAD) and in the proper-motion  *)
(* divisor p * 365.25.                                                     *)
C2_ParallaxSentinel ==
    star.status # "new" =>
        /\ fle(ctor.parallax, Zero) =>
             LET twin == _compute_vectors([ctor EXCEPT !.parallax = D(1, -6)])
             IN  /\ frame.raised = twin.raised
                 /\ heap[star._position] = twin.position
                 /\ Built => heap[star._velocity] = twin.velocity
        /\ flt(Zero, ctor.parallax) =>
             /\ frame.dist =
                  fdiv(D(1, 0), sin(fmul(fmul(ctor.parallax, D(1, -3)), ASEC2RAD)))
             /\ Built =>
                  /\ frame.pmr = fmul(fdiv(ctor.pm_ra,
                                           fmul(ctor.parallax, D(36525, -2))), frame.k)
                  /\ frame.pmd = fmul(fdiv(ctor.pm_dec,
                                           fmul(ctor.parallax, D(36525, -2))), frame.k)

\* A star was built from a zero parallax and a non-zero proper motion.
C2_Witness ==
    /\ Built
    /\ ctor.parallax = Zero
    /\ ctor.pm_ra = D(1000, 0)
    /\ frame.parallax = D(1, -6)

(* C3 as stated: constructing a Star never ends in an error, whatever the  *)
(* six inputs, a zero Doppler denominator included.                        *)
C3_ConstructionNeverRaises == star.status # "raised"

(* C4.  A step of observe_from leaves the star's six scalars, its cached   *)
(* position and velocity and the observers' position, velocity and jd as   *)
(* they were.                                                              *)
C4_ObserveFromReadsOnly ==
    [][call' # call =>
         /\ star' = star
         /\ \A r \in StarRefs \cup ObserverRefs : heap'[r] = heap[r]]_vars

\* A call for the moving observer has returned.
C4_Witness == \E n \in Returned : results[n].observer = 2 /\ Built

\* The observer of call n is at rest at the origin at the epoch T0 and
\* light_time_difference returned 0.
AtRestAtOriginAtT0(n) ==
    /\ heap[Observer(log[n].observer).position] = <<Zero, Zero, Zero>>
    /\ heap[Observer(log[n].observer).velocity] = <<Zero, Zero, Zero>>
    /\ heap[Observer(log[n].observer).jd] = <<T0>>
    /\ DtOf(n) = Zero

ApparentIsCatalog(n) ==
    /\ Values(n).vector = CachedPosition
    /\ Values(n).distance = <<Norm3(CachedPosition)>>
    /\ Values(n).lighttime = <<fdiv(Norm3(CachedPosition), C_AUDAY)>>

(* C5, as amended.  For an observer at rest at the origin with             *)
(* jd.tdb = T0 and dt = 0, and a star whose cached velocity is finite in   *)
(* every component, the apparent vector is the cached position, the        *)
(* distance its Euclidean norm and lighttime = distance / C_AUDAY.         *)
C5_RestObserverSeesCatalogPosition ==
    \A n \in Returned :
        AtRestAtOriginAtT0(n) /\ AllFinite(CachedVelocity) => ApparentIsCatalog(n)

\* C5 as stated: the same, whatever the star's velocity is.
C5_WhateverTheVelocity ==
    \A n \in Returned : AtRestAtOriginAtT0(n) => ApparentIsCatalog(n)

\* Such a call has returned for a star that moves.
C5_Witness ==
    \E n \in Returned :
        /\ AtRestAtOriginAtT0(n)
        /\ AllFinite(CachedVelocity)
        /\ CachedVelocity # <<Zero, Zero, Zero>>

\* The star built from ctor and the one built with radial_velocity negated.
Negated == _compute_vectors([ctor EXCEPT !.radial_velocity = fneg(@)])

Subluminal ==
    /\ flt(Zero, DopplerDenominator(ctor.radial_velocity))
    /\ flt(Zero, DopplerDenominator(fneg(ctor.radial_velocity)))

SymmetricInRadialVelocity ==
    /\ frame.position = Negated.position
    /\ frame.dist = Negated.dist
    /\ Sgn(Negated.rvl[1]) = -Sgn(frame.rvl[1])

(* C6, as amended.  When both Doppler denominators, 1 - rv/C*1000 and      *)
(* 1 + rv/C*1000, are positive (|rv| below the speed of light), both       *)
(* stars are built, negating radial_velocity leaves the position and dist  *)
(* unchanged and gives rvl the opposite sign, that of the radial_velocity. *)
C6_SubluminalSymmetry ==
    star.status # "new" /\ Subluminal =>
        /\ Built
        /\ ~Negated.raised
        /\ SymmetricInRadialVelocity
        /\ Sgn(frame.rvl[1]) = Sgn(ctor.radial_velocity[1])

\* C6 as stated: for every radial_velocity with which both stars are built.
C6_EveryRadialVelocity ==
    Built /\ ~Negated.raised => SymmetricInRadialVelocity

\* A receding star was built.
C6_Witness ==
    /\ Built
    /\ Subluminal
    /\ ctor.radial_velocity = D(20, 0)
    /\ frame.rvl[1] > 0

(* C7.  With several calls of observe_from interleaved on one star, each   *)
(* returns the vector, relative velocity, distance and lighttime it        *)
(* returns running alone for the same observer, and no state is reached    *)
(* in which the cached position or velocity differs from the constructed   *)
(* one.                                                                    *)
C7_ConcurrentCallsAsAlone ==
    /\ CachedPosition = Catalog[ctor].position
    /\ CachedVelocity = Catalog[ctor].velocity
    /\ \A n \in Returned : Values(n) = Alone[ctor, log[n].observer, DtOf(n)]

\* The second call has returned while the first is still running.
C7_Witness ==
    /\ 2 \in Returned
    /\ 1 \notin Returned
    /\ \E t \in Threads : call[t].n = 1 /\ call[t].pc \in {"l32", "l33", "l34", "l36"}

C9_ResultFormula ==
    \A n \in Returned :
        LET o    == Observer(log[n].observer)
            days == fsub(fsub(T0, heap[o.jd][1]), DtOf(n))
            vec  == [i \in 1..3 |->
                       fsub(fadd(CachedPosition[i], fmul(CachedVelocity[i], days)),
                            heap[o.position][i])]
        IN  /\ Values(n).vector = vec
            /\ Values(n).velocity =
                 [i \in 1..3 |-> fsub(CachedVelocity[i], heap[o.velocity][i])]
            /\ results[n].jd = o.jd
            /\ results[n].observer = log[n].observer
            /\ Values(n).distance = <<Norm3(vec)>>
            /\ Values(n).lighttime = <<fdiv(Norm3(vec), C_AUDAY)>>

\* A call has returned whose extrapolation moved the star.
C9_Witness ==
    \E n \in Returned :
        /\ DtOf(n) # Zero
        /\ vadd(Values(n).vector, heap[Observer(log[n].observer).position])
             # CachedPosition

Body == <<"l28", "l29", "l30", "l31", "l32", "l33", "l34", "l36">>

(* C10.  Every call runs the lines of observe_from once each, in order:    *)
(* light_time_difference is invoked once, before the extrapolation, with   *)
(* the star's cached position and the observer's position; nothing is      *)
(* recomputed after lighttime; a call that has not returned stands at the  *)
(* next line of the body, and it returns with the last line.               *)
C10_SinglePass ==
    /\ \A n \in DOMAIN log :
         /\ Len(log[n].steps) <= Len(Body)
         /\ log[n].steps = SubSeq(Body, 1, Len(log[n].steps))
         /\ Len(log[n].ltd) = (IF Len(log[n].steps) >= 3 THEN 1 ELSE 0)
         /\ \A i \in DOMAIN log[n].ltd :
              /\ log[n].ltd[i].position = StarRef("_position")
              /\ log[n].ltd[i].observer_position = Observer(log[n].observer).position
         /\ n \in Returned <=> log[n].steps = Body
    /\ \A t \in Threads :
         call[t].pc # "idle" =>
           /\ log[call[t].n].steps = SubSeq(Body, 1, Len(log[call[t].n].steps))
           /\ Len(log[call[t].n].steps) < Len(Body)
           /\ call[t].pc = Body[Len(log[call[t].n].steps) + 1]

\* A call has returned after light_time_difference gave a non-zero dt.
C10_Witness ==
    \E n \in Returned : log[n].steps = Body /\ DtOf(n) = D(5, -3)

=============================================================================
